---- MODULE Spec2Model ----
(***************************************************************************)
(* A model of reviews/models.py: the persistent records of a systematic    *)
(* literature review and the helper methods defined on them.               *)
(*                                                                         *)
(* Conventions.  A character string is a sequence of one-character         *)
(* strings, so that slicing, prefixing and substring search are computed.  *)
(* A table is a sequence of rows; the primary key of a row is its index,   *)
(* and 0 stands for None (an unsaved object's pk, a null foreign key).     *)
(* A float weight is counted in halves (2 is 1.0, 1 is 0.5, 0 is 0.0).     *)
(* Halves are exact in binary floating point, and so are their sums and    *)
(* products at this size.                                                  *)
(* The variable op names the method that ran last; the variables that hold *)
(* a call's argument and result are cleared by the methods that write.     *)
(***************************************************************************)
EXTENDS Integers, Sequences, FiniteSets

VARIABLES
    op,              \* the method that ran last
    url, value,      \* Source.url, and the argument of the last set_url
    now,             \* the clock datetime.datetime.now() reads
    last_update,     \* Review.last_update on the instance: <<>> is None, <<t>> a time
    db_last_update,  \* Review.last_update as stored by the last save
    prev_update,     \* the value last_update held when the last save began
    author, co_authors, co_order, user, is_ret,
                     \* Review.author, Review.co_authors, the order co_authors.all()
                     \* returned, the user asked about, the value returned
    questions, mq_review, mq_ret,
                     \* the Question table, the review asked, the Question returned
    sessions, ss_review, ss_ret,
                     \* the SearchSession table, the review asked, the session returned
    keywords, kw_self, kw_ret,
                     \* the Keyword table, the keyword asked, the synonyms returned
    kw_description, kw_saved, sc_description, sc_saved, old_description,
                     \* one Keyword and one SelectionCriteria instance: the description
                     \* on the instance, the one stored, the one held before the save
    quality_questions, quality_answers, assessments,
                     \* the QualityQuestion, QualityAnswer, QualityAssessment tables
    qa_arg, qa_ret   \* the review or article asked, the outcome of the computation

vars == <<op, url, value, now, last_update, db_last_update, prev_update,
          author, co_authors, co_order, user, is_ret,
          questions, mq_review, mq_ret, sessions, ss_review, ss_ret,
          keywords, kw_self, kw_ret,
          kw_description, kw_saved, sc_description, sc_saved, old_description,
          quality_questions, quality_answers, assessments, qa_arg, qa_ret>>

sourceVars  == <<url, value>>
saveVars    == <<now, last_update, db_last_update, prev_update>>
authorVars  == <<author, co_authors, co_order, user, is_ret>>
questionVars == <<questions, mq_review, mq_ret>>
sessionVars == <<sessions, ss_review, ss_ret>>
keywordVars == <<keywords, kw_self, kw_ret>>
descVars    == <<kw_description, kw_saved, sc_description, sc_saved, old_description>>
qualityVars == <<quality_questions, quality_answers, assessments, qa_arg, qa_ret>>

-----------------------------------------------------------------------------
(* Bounds *)

MaxTokens == 3
MaxTime == 3
MaxUsers == 3
MaxReviews == 2
MaxQuestions == 3
MaxSources == 1
MaxSessions == 3
MaxKeywords == 3
DescSlack == 1
MaxQualityQuestions == 2
MaxQualityAnswers == 3
MaxAssessments == 2
MaxArticles == 2

Min(a, b) == IF a <= b THEN a ELSE b

Range(s) == {s[i] : i \in 1..Len(s)}

\* Every enumeration of the finite set S, each member once.
Orderings(S) == {s \in [1..Cardinality(S) -> S] : Range(s) = S}

Reviews == 1..MaxReviews
Users == 1..MaxUsers

-----------------------------------------------------------------------------
(* Source *)

HTTP == <<"h", "t", "t", "p", ":", "/", "/">>
HTTPS == <<"h", "t", "t", "p", "s", ":", "/", "/">>

\* Python's `needle in s` on strings.
Contains(needle, s) ==
    \E i \in 1..(Len(s) - Len(needle) + 1) :
        SubSeq(s, i, i + Len(needle) - 1) = needle

\* The pieces the values given to set_url are built from.
Tokens == {HTTP, HTTPS, <<"a">>, <<".">>, <<"h", "t", "t", "p">>, <<"/">>}

RECURSIVE Concat(_)
Concat(ts) == IF ts = <<>> THEN <<>> ELSE Head(ts) \o Concat(Tail(ts))

UrlValues == {Concat(ts) : ts \in UNION {[1..n -> Tokens] : n \in 0..MaxTokens}}

\* The value Source.set_url(value) assigns to self.url.
SetUrlResult(v) ==
    IF ~Contains(HTTP, v) /\ ~Contains(HTTPS, v) /\ Len(v) > 0
    THEN HTTP \o v
    ELSE v

set_url(v) ==
    /\ url' = SetUrlResult(v)
    /\ value' = v
    /\ op' = "set_url"
    /\ UNCHANGED <<saveVars, authorVars, questionVars, sessionVars, keywordVars,
                   descVars, qualityVars>>

NextSource == \E v \in UrlValues : set_url(v)

-----------------------------------------------------------------------------
(* Review.save and Review.last_update *)

\* A save that stamps only a last_update not yet set.
SaveStampIfUnset(clock, held) == IF held = <<>> THEN <<clock>> ELSE held

\* datetime.datetime.now() at a save: the stamp written to last_update.
SaveStamp(clock, held) == <<clock>>

\* Time passes.
Tick ==
    /\ now < MaxTime
    /\ now' = now + 1
    /\ op' = "tick"
    /\ UNCHANGED <<last_update, db_last_update, prev_update>>
    /\ UNCHANGED <<sourceVars, authorVars, questionVars, sessionVars, keywordVars,
                   descVars, qualityVars>>

\* The caller assigns review.last_update = t; nothing is stored yet.
assign_last_update(t) ==
    /\ last_update' = <<t>>
    /\ op' = "assign_last_update"
    /\ UNCHANGED <<now, db_last_update, prev_update>>
    /\ UNCHANGED <<sourceVars, authorVars, questionVars, sessionVars, keywordVars,
                   descVars, qualityVars>>

\* Review.save: stamp last_update, then store the row.
review_save ==
    /\ prev_update' = last_update
    /\ last_update' = SaveStamp(now, last_update)
    /\ db_last_update' = last_update'
    /\ op' = "review_save"
    /\ UNCHANGED now
    /\ UNCHANGED <<sourceVars, authorVars, questionVars, sessionVars, keywordVars,
                   descVars, qualityVars>>

NextSave ==
    \/ Tick
    \/ \E t \in 0..MaxTime : assign_last_update(t)
    \/ review_save

-----------------------------------------------------------------------------
(* Review.is_author_or_coauthor *)

\* A loop that gives up after the first co-author.
FirstCoAuthorOnly(u, order) == order # <<>> /\ u = Head(order)

\* The loop over self.co_authors.all(), in the order the rows came back.
RECURSIVE CoAuthorLoop(_, _)
CoAuthorLoop(u, order) ==
    IF order = <<>> THEN FALSE
    ELSE IF u = Head(order) THEN TRUE
    ELSE CoAuthorLoop(u, Tail(order))

IsAuthorOrCoauthor(u, a, order) ==
    IF u = a THEN TRUE ELSE CoAuthorLoop(u, order)

\* review.co_authors.add(u): a many-to-many relation holds a user once.
add_co_author(u) ==
    /\ co_authors' = co_authors \cup {u}
    /\ op' = "add_co_author"
    /\ co_order' = <<>> /\ user' = 0 /\ is_ret' = FALSE
    /\ UNCHANGED author
    /\ UNCHANGED <<sourceVars, saveVars, questionVars, sessionVars, keywordVars,
                   descVars, qualityVars>>

remove_co_author(u) ==
    /\ u \in co_authors
    /\ co_authors' = co_authors \ {u}
    /\ op' = "remove_co_author"
    /\ co_order' = <<>> /\ user' = 0 /\ is_ret' = FALSE
    /\ UNCHANGED author
    /\ UNCHANGED <<sourceVars, saveVars, questionVars, sessionVars, keywordVars,
                   descVars, qualityVars>>

\* review.author = a
set_author(a) ==
    /\ author' = a
    /\ op' = "set_author"
    /\ co_order' = <<>> /\ user' = 0 /\ is_ret' = FALSE
    /\ UNCHANGED co_authors
    /\ UNCHANGED <<sourceVars, saveVars, questionVars, sessionVars, keywordVars,
                   descVars, qualityVars>>

\* co_authors has no ordering: all() may return its rows in any order.
is_author_or_coauthor(u) ==
    \E order \in Orderings(co_authors) :
        /\ co_order' = order
        /\ user' = u
        /\ is_ret' = IsAuthorOrCoauthor(u, author, order)
        /\ op' = "is_author_or_coauthor"
        /\ UNCHANGED <<author, co_authors>>
        /\ UNCHANGED <<sourceVars, saveVars, questionVars, sessionVars, keywordVars,
                       descVars, qualityVars>>

NextAuthor ==
    \/ \E u \in Users : add_co_author(u)
    \/ \E u \in Users : remove_co_author(u)
    \/ \E a \in Users : set_author(a)
    \/ \E u \in Users : is_author_or_coauthor(u)

-----------------------------------------------------------------------------
(* Question and Review.get_main_question *)

QuestionTypes == {"M", "S"}

\* Question(): no pk, no review, the field default for question_type.
NewQuestion == [id |-> 0, review |-> 0, question_type |-> ""]

QuestionRow(i) ==
    [id |-> i, review |-> questions[i].review,
     question_type |-> questions[i].question_type]

\* The filter without its review condition.
MainQuestionsOfAnyReview(r) ==
    {i \in 1..Len(questions) : questions[i].question_type = "M"}

\* Question.objects.filter(review__id=r, question_type='M')
MainQuestionsOf(r) ==
    {i \in 1..Len(questions) :
        questions[i].review = r /\ questions[i].question_type = "M"}

\* Question.objects.create(review=r, question_type=t)
create_question(r, t) ==
    /\ Len(questions) < MaxQuestions
    /\ questions' = Append(questions, [review |-> r, question_type |-> t])
    /\ op' = "create_question"
    /\ mq_review' = 0 /\ mq_ret' = NewQuestion
    /\ UNCHANGED <<sourceVars, saveVars, authorVars, sessionVars, keywordVars,
                   descVars, qualityVars>>

\* A stored question's question_type is changed and the row saved.
update_question(i, t) ==
    /\ i \in 1..Len(questions)
    /\ questions[i].question_type # t
    /\ questions' = [questions EXCEPT ![i].question_type = t]
    /\ op' = "update_question"
    /\ mq_review' = 0 /\ mq_ret' = NewQuestion
    /\ UNCHANGED <<sourceVars, saveVars, authorVars, sessionVars, keywordVars,
                   descVars, qualityVars>>

\* The rows a call may hand back: [:1].get() takes the first row of a query with
\* no ordering, so any matching row; Question.DoesNotExist gives Question().
GetMainQuestionResults(r) ==
    IF MainQuestionsOf(r) = {}
    THEN {NewQuestion}
    ELSE {QuestionRow(i) : i \in MainQuestionsOf(r)}

get_main_question(r) ==
    \E q \in GetMainQuestionResults(r) :
        /\ mq_ret' = q
        /\ mq_review' = r
        /\ op' = "get_main_question"
        /\ UNCHANGED questions
        /\ UNCHANGED <<sourceVars, saveVars, authorVars, sessionVars, keywordVars,
                       descVars, qualityVars>>

NextQuestion ==
    \/ \E r \in Reviews, t \in QuestionTypes : create_question(r, t)
    \/ \E i \in 1..MaxQuestions, t \in QuestionTypes : update_question(i, t)
    \/ \E r \in Reviews : get_main_question(r)

-----------------------------------------------------------------------------
(* SearchSession and Review.get_generic_search_string *)

Sources == 1..MaxSources

SessionRow(i) ==
    [id |-> i, review |-> sessions[i].review, source |-> sessions[i].source]

\* SearchSession(review=self): no pk, bound to the review, no source.
NewSearchSession(r) == [id |-> 0, review |-> r, source |-> 0]

\* The filter without its review condition.
GenericSessionsOfAnyReview(r) ==
    {i \in 1..Len(sessions) : sessions[i].source = 0}

\* SearchSession.objects.filter(review__id=r, source=None)
GenericSessionsOf(r) ==
    {i \in 1..Len(sessions) : sessions[i].review = r /\ sessions[i].source = 0}

\* SearchSession.objects.create(review=r, source=s); s = 0 is no source.
create_search_session(r, s) ==
    /\ Len(sessions) < MaxSessions
    /\ sessions' = Append(sessions, [review |-> r, source |-> s])
    /\ op' = "create_search_session"
    /\ ss_review' = 0 /\ ss_ret' = NewSearchSession(0)
    /\ UNCHANGED <<sourceVars, saveVars, authorVars, questionVars, keywordVars,
                   descVars, qualityVars>>

\* [:1].get() on a query with no ordering: any matching row;
\* SearchSession.DoesNotExist gives SearchSession(review=self).
GetGenericSearchStringResults(r) ==
    IF GenericSessionsOf(r) = {}
    THEN {NewSearchSession(r)}
    ELSE {SessionRow(i) : i \in GenericSessionsOf(r)}

get_generic_search_string(r) ==
    \E x \in GetGenericSearchStringResults(r) :
        /\ ss_ret' = x
        /\ ss_review' = r
        /\ op' = "get_generic_search_string"
        /\ UNCHANGED sessions
        /\ UNCHANGED <<sourceVars, saveVars, authorVars, questionVars, keywordVars,
                       descVars, qualityVars>>

NextSession ==
    \/ \E r \in Reviews, s \in 0..MaxSources : create_search_session(r, s)
    \/ \E r \in Reviews : get_generic_search_string(r)

-----------------------------------------------------------------------------
(* Keyword and Keyword.get_synonyms *)

\* Characters in collation order.
Alphabet == <<"a", "b", "c">>

CharRank(c) == CHOOSE i \in 1..Len(Alphabet) : Alphabet[i] = c

\* s sorts before t, or equals it.
RECURSIVE LexLeq(_, _)
LexLeq(s, t) ==
    IF s = <<>> THEN TRUE
    ELSE IF t = <<>> THEN FALSE
    ELSE IF CharRank(Head(s)) < CharRank(Head(t)) THEN TRUE
    ELSE IF CharRank(Head(s)) > CharRank(Head(t)) THEN FALSE
    ELSE LexLeq(Tail(s), Tail(t))

KeywordNames == {<<"a">>, <<"b">>}

\* The filter without its review condition.
SynonymsInAnyReview(k) ==
    {i \in 1..Len(keywords) : keywords[i].synonym_of = k}

\* Keyword.objects.filter(review__id=self.review.id, synonym_of__id=self.id)
SynonymsOf(k) ==
    {i \in 1..Len(keywords) :
        keywords[i].review = keywords[k].review /\ keywords[i].synonym_of = k}

\* Meta.ordering = ("description",): the rows of ids in description order, rows
\* of equal description in any order.
ByDescription(ids) ==
    {s \in Orderings(ids) :
        \A i \in 1..(Len(s) - 1) :
            LexLeq(keywords[s[i]].description, keywords[s[i + 1]].description)}

\* Keyword.objects.create(review=r, description=d, synonym_of=syn); syn is a
\* stored keyword or 0 for None.  No rule ties syn to the same review.
create_keyword(r, d, syn) ==
    /\ Len(keywords) < MaxKeywords
    /\ syn \in 0..Len(keywords)
    /\ keywords' = Append(keywords,
                          [review |-> r, description |-> d, synonym_of |-> syn])
    /\ op' = "create_keyword"
    /\ kw_self' = 0 /\ kw_ret' = <<>>
    /\ UNCHANGED <<sourceVars, saveVars, authorVars, questionVars, sessionVars,
                   descVars, qualityVars>>

get_synonyms(k) ==
    /\ k \in 1..Len(keywords)
    /\ \E rows \in ByDescription(SynonymsOf(k)) :
        /\ kw_ret' = rows
        /\ kw_self' = k
        /\ op' = "get_synonyms"
        /\ UNCHANGED keywords
        /\ UNCHANGED <<sourceVars, saveVars, authorVars, questionVars, sessionVars,
                       descVars, qualityVars>>

NextKeyword ==
    \/ \E r \in Reviews, d \in KeywordNames, syn \in 0..MaxKeywords :
          create_keyword(r, d, syn)
    \/ \E k \in 1..MaxKeywords : get_synonyms(k)

-----------------------------------------------------------------------------
(* SelectionCriteria.save and Keyword.save *)

DescriptionMaxLength == 200

\* Python's s[:n] for n >= 0.
Slice(s, n) == SubSeq(s, 1, Min(Len(s), n))

\* A slice one character short.
ShortDescription(d) == Slice(d, DescriptionMaxLength - 1)

\* self.description[:200]
TruncatedDescription(d) == Slice(d, DescriptionMaxLength)

\* A description of n characters; the characters cycle through the alphabet,
\* so that no two positions nearby hold the same one.
Text(n) == [i \in 1..n |-> Alphabet[(i % Len(Alphabet)) + 1]]

DescriptionLengths ==
    {0}
        \cup ((DescriptionMaxLength - DescSlack)..(DescriptionMaxLength + DescSlack))
        \cup {DescriptionMaxLength + 50}

Descriptions == {Text(n) : n \in DescriptionLengths}

\* keyword.description = d, on the instance only.
set_keyword_description(d) ==
    /\ kw_description' = d
    /\ op' = "set_keyword_description"
    /\ UNCHANGED <<kw_saved, sc_description, sc_saved, old_description>>
    /\ UNCHANGED <<sourceVars, saveVars, authorVars, questionVars, sessionVars,
                   keywordVars, qualityVars>>

\* Keyword.save
keyword_save ==
    /\ old_description' = kw_description
    /\ kw_description' = TruncatedDescription(kw_description)
    /\ kw_saved' = kw_description'
    /\ op' = "keyword_save"
    /\ UNCHANGED <<sc_description, sc_saved>>
    /\ UNCHANGED <<sourceVars, saveVars, authorVars, questionVars, sessionVars,
                   keywordVars, qualityVars>>

\* criteria.description = d, on the instance only.
set_criteria_description(d) ==
    /\ sc_description' = d
    /\ op' = "set_criteria_description"
    /\ UNCHANGED <<sc_saved, kw_description, kw_saved, old_description>>
    /\ UNCHANGED <<sourceVars, saveVars, authorVars, questionVars, sessionVars,
                   keywordVars, qualityVars>>

\* SelectionCriteria.save
criteria_save ==
    /\ old_description' = sc_description
    /\ sc_description' = TruncatedDescription(sc_description)
    /\ sc_saved' = sc_description'
    /\ op' = "criteria_save"
    /\ UNCHANGED <<kw_description, kw_saved>>
    /\ UNCHANGED <<sourceVars, saveVars, authorVars, questionVars, sessionVars,
                   keywordVars, qualityVars>>

NextDescription ==
    \/ \E d \in Descriptions : set_keyword_description(d)
    \/ keyword_save
    \/ \E d \in Descriptions : set_criteria_description(d)
    \/ criteria_save

-----------------------------------------------------------------------------
(* QualityQuestion, QualityAnswer, QualityAssessment *)

Articles == 1..MaxArticles

\* Weights in halves: those of QualityAnswer.SUGGESTED_ANSWERS, 0.0, 0.5, 1.0.
Weights == {0, 1, 2}

\* What a method call comes to: a value returned, or an exception raised.
Returned(v) == [raised |-> FALSE, value |-> v]
Raised == [raised |-> TRUE, value |-> 0]

\* QualityQuestion.objects.create(review=r)
create_quality_question(r) ==
    /\ Len(quality_questions) < MaxQualityQuestions
    /\ quality_questions' = Append(quality_questions, [review |-> r])
    /\ op' = "create_quality_question"
    /\ qa_arg' = 0 /\ qa_ret' = Returned(0)
    /\ UNCHANGED <<quality_answers, assessments>>
    /\ UNCHANGED <<sourceVars, saveVars, authorVars, questionVars, sessionVars,
                   keywordVars, descVars>>

\* QualityAnswer.objects.create(review=r, weight=w)
create_quality_answer(r, w) ==
    /\ Len(quality_answers) < MaxQualityAnswers
    /\ quality_answers' = Append(quality_answers, [review |-> r, weight |-> w])
    /\ op' = "create_quality_answer"
    /\ qa_arg' = 0 /\ qa_ret' = Returned(0)
    /\ UNCHANGED <<quality_questions, assessments>>
    /\ UNCHANGED <<sourceVars, saveVars, authorVars, questionVars, sessionVars,
                   keywordVars, descVars>>

\* QualityAssessment.objects.create(article=a, answer=ans); ans is a stored
\* answer or 0 for None (answer is a null=True foreign key).
create_quality_assessment(a, ans) ==
    /\ Len(assessments) < MaxAssessments
    /\ ans \in 0..Len(quality_answers)
    /\ assessments' = Append(assessments, [article |-> a, answer |-> ans])
    /\ op' = "create_quality_assessment"
    /\ qa_arg' = 0 /\ qa_ret' = Returned(0)
    /\ UNCHANGED <<quality_questions, quality_answers>>
    /\ UNCHANGED <<sourceVars, saveVars, authorVars, questionVars, sessionVars,
                   keywordVars, descVars>>

\* QualityQuestion.objects.filter(review__id=r).count()
QuestionsCount(r) ==
    Cardinality({i \in 1..Len(quality_questions) : quality_questions[i].review = r})

\* QualityAnswer.objects.filter(review__id=r)
AnswersOf(r) ==
    {i \in 1..Len(quality_answers) : quality_answers[i].review = r}

\* order_by('weight'): the ascending order.
LowerWeightAnswers(r) ==
    {i \in AnswersOf(r) :
        \A j \in AnswersOf(r) : quality_answers[i].weight <= quality_answers[j].weight}

\* .order_by('-weight')[:1]: a row no other row of the query outweighs.
HigherWeightAnswers(r) ==
    {i \in AnswersOf(r) :
        \A j \in AnswersOf(r) : quality_answers[j].weight <= quality_answers[i].weight}

\* The body of the try block for one choice of the row [:1] yields; .get()
\* raises QualityAnswer.DoesNotExist on an empty query.
MaxScoreTry(r, first) ==
    IF AnswersOf(r) = {}
    THEN Raised
    ELSE IF QuestionsCount(r) # 0
         THEN Returned(QuestionsCount(r) * quality_answers[first].weight)
         ELSE Returned(0)

\* try: ... except: return 0.0
CalculateMaxScore(r, first) ==
    IF MaxScoreTry(r, first).raised THEN Returned(0) ELSE MaxScoreTry(r, first)

calculate_quality_assessment_max_score(r) ==
    \E first \in (IF AnswersOf(r) = {} THEN {0} ELSE HigherWeightAnswers(r)) :
        /\ qa_ret' = CalculateMaxScore(r, first)
        /\ qa_arg' = r
        /\ op' = "calculate_quality_assessment_max_score"
        /\ UNCHANGED <<quality_questions, quality_answers, assessments>>
        /\ UNCHANGED <<sourceVars, saveVars, authorVars, questionVars, sessionVars,
                       keywordVars, descVars>>

NextMaxScore ==
    \/ \E r \in Reviews : create_quality_question(r)
    \/ \E r \in Reviews, w \in Weights : create_quality_answer(r, w)
    \/ \E r \in Reviews : calculate_quality_assessment_max_score(r)

\* QualityAssessment.objects.filter(article__id=a), in the order of the rows.
AssessmentsOf(a) ==
    SelectSeq(assessments, LAMBDA row : row.article = a)

\* for quality_assessment in quality_assessments:
\*     score += quality_assessment.answer.weight
\* .weight of a None answer raises AttributeError.
RECURSIVE ScoreLoop(_, _)
ScoreLoop(rows, score) ==
    IF rows = <<>> THEN Returned(score)
    ELSE IF Head(rows).answer = 0 THEN Raised
    ELSE ScoreLoop(Tail(rows), score + quality_answers[Head(rows).answer].weight)

GetScore(a) == ScoreLoop(AssessmentsOf(a), 0)

get_score(a) ==
    /\ qa_ret' = GetScore(a)
    /\ qa_arg' = a
    /\ op' = "get_score"
    /\ UNCHANGED <<quality_questions, quality_answers, assessments>>
    /\ UNCHANGED <<sourceVars, saveVars, authorVars, questionVars, sessionVars,
                   keywordVars, descVars>>

NextScore ==
    \/ \E r \in Reviews, w \in Weights : create_quality_answer(r, w)
    \/ \E a \in Articles, ans \in 0..MaxQualityAnswers :
          create_quality_assessment(a, ans)
    \/ \E a \in Articles : get_score(a)

-----------------------------------------------------------------------------
(* Specifications *)

\* Empty tables; a Source, a Keyword and a SelectionCriteria just constructed
\* (CharField defaults to ''); a Review just constructed with an author, no
\* co-author and last_update not yet set; no method has been called.
Init ==
    /\ op = "init"
    /\ url = <<>> /\ value = <<>>
    /\ now = 0 /\ last_update = <<>> /\ db_last_update = <<>> /\ prev_update = <<>>
    /\ author = 1 /\ co_authors = {} /\ co_order = <<>>
    /\ user = 0 /\ is_ret = FALSE
    /\ questions = <<>> /\ mq_review = 0 /\ mq_ret = NewQuestion
    /\ sessions = <<>> /\ ss_review = 0 /\ ss_ret = NewSearchSession(0)
    /\ keywords = <<>> /\ kw_self = 0 /\ kw_ret = <<>>
    /\ kw_description = <<>> /\ kw_saved = <<>>
    /\ sc_description = <<>> /\ sc_saved = <<>> /\ old_description = <<>>
    /\ quality_questions = <<>> /\ quality_answers = <<>> /\ assessments = <<>>
    /\ qa_arg = 0 /\ qa_ret = Returned(0)

Next ==
    \/ NextSource
    \/ NextSave
    \/ NextAuthor
    \/ NextQuestion
    \/ NextSession
    \/ NextKeyword
    \/ NextDescription
    \/ NextMaxScore
    \/ NextScore

\* Every method on every record.
Spec == Init /\ [][Next]_vars

\* One group of records at a time, the others left as constructed.
SpecSource == Init /\ [][NextSource]_vars
SpecSave == Init /\ [][NextSave]_vars
SpecAuthor == Init /\ [][NextAuthor]_vars
SpecQuestion == Init /\ [][NextQuestion]_vars
SpecSession == Init /\ [][NextSession]_vars
SpecKeyword == Init /\ [][NextKeyword]_vars
SpecDescription == Init /\ [][NextDescription]_vars
SpecMaxScore == Init /\ [][NextMaxScore]_vars
SpecScore == Init /\ [][NextScore]_vars

-----------------------------------------------------------------------------
(* Properties *)

\* The sum of f[i] over the finite set S of integers.
RECURSIVE SumOver(_, _)
SumOver(S, f) ==
    IF S = {} THEN 0
    ELSE LET i == CHOOSE x \in S : TRUE IN f[i] + SumOver(S \ {i}, f)

\* The assessments of article a that have an answer.
AnsweredAssessments(a) ==
    {i \in 1..Len(assessments) :
        assessments[i].article = a /\ assessments[i].answer # 0}

\* C1: get_score never raises and returns the sum of answer.weight over the
\* article's assessments that have an answer; an assessment without an answer
\* adds nothing, and an article without assessments scores 0.
GetScoreNeverRaises ==
    op = "get_score" =>
        /\ ~qa_ret.raised
        /\ qa_ret.value =
              SumOver(AnsweredAssessments(qa_arg),
                      [i \in AnsweredAssessments(qa_arg) |->
                          quality_answers[assessments[i].answer].weight])

\* s begins with prefix.
StartsWith(s, prefix) ==
    Len(s) >= Len(prefix) /\ SubSeq(s, 1, Len(prefix)) = prefix

\* C2: after set_url(v), url is "" for an empty v, v itself when v starts with
\* http:// or https://, and http:// followed by v for every other v.
SetUrlPrefixesUnlessSchemeLeads ==
    op = "set_url" =>
        url = IF value = <<>> THEN <<>>
              ELSE IF StartsWith(value, HTTP) \/ StartsWith(value, HTTPS) THEN value
              ELSE HTTP \o value

\* The QualityQuestion rows of review r, and the weights of its QualityAnswers.
QualityQuestionRows(r) ==
    {i \in 1..Len(quality_questions) : quality_questions[i].review = r}
AnswerWeights(r) ==
    {quality_answers[i].weight :
        i \in {j \in 1..Len(quality_answers) : quality_answers[j].review = r}}
Highest(W) == CHOOSE w \in W : \A v \in W : v <= w

\* C3: calculate_quality_assessment_max_score never raises and returns the
\* number of the review's QualityQuestions times the highest weight among the
\* review's QualityAnswers, 0 when the review has none of either.
MaxScoreIsCountTimesHighestWeight ==
    op = "calculate_quality_assessment_max_score" =>
        /\ ~qa_ret.raised
        /\ qa_ret.value =
              IF QualityQuestionRows(qa_arg) = {} \/ AnswerWeights(qa_arg) = {}
              THEN 0
              ELSE Cardinality(QualityQuestionRows(qa_arg))
                       * Highest(AnswerWeights(qa_arg))

\* C3 witness: a review with two questions and answers of different weights,
\* the heaviest answer in the store belonging to another review.
MaxScoreWitness ==
    /\ op = "calculate_quality_assessment_max_score"
    /\ Cardinality(QualityQuestionRows(qa_arg)) >= 2
    /\ Cardinality(AnswerWeights(qa_arg)) >= 2
    /\ qa_ret.value > 0
    /\ \E i \in 1..Len(quality_answers) :
          /\ quality_answers[i].review # qa_arg
          /\ quality_answers[i].weight > Highest(AnswerWeights(qa_arg))

\* C4: after each save, last_update is at least the value it held immediately
\* before that save, a value the caller assigned included.
LastUpdateNeverGoesBack ==
    (op = "review_save" /\ prev_update # <<>>) =>
        last_update[1] >= prev_update[1]

\* C4, amended: each save sets last_update, on the instance and in the store,
\* to the time of the save; that is at least the value held before whenever
\* the value held before was not later than the time of the save.
SaveStampsCurrentTime ==
    op = "review_save" =>
        /\ last_update = <<now>>
        /\ db_last_update = <<now>>
        /\ (prev_update # <<>> /\ prev_update[1] <= now) =>
              last_update[1] >= prev_update[1]

\* C4 witness: a save that replaced a later time the caller had assigned.
SaveOverridesLaterValue ==
    /\ op = "review_save"
    /\ prev_update # <<>>
    /\ prev_update[1] > now
    /\ last_update = <<now>>

\* C5: get_main_question stores nothing; it returns a stored Main question of
\* the review when there is one, and otherwise Question() with no pk.
GetMainQuestionContract ==
    [][op' = "get_main_question" =>
        /\ questions' = questions
        /\ IF \E i \in 1..Len(questions) :
                  questions[i].review = mq_review' /\ questions[i].question_type = "M"
           THEN /\ mq_ret'.id \in 1..Len(questions)
                /\ questions[mq_ret'.id].review = mq_review'
                /\ questions[mq_ret'.id].question_type = "M"
                /\ mq_ret'.review = mq_review'
                /\ mq_ret'.question_type = "M"
           ELSE mq_ret' = [id |-> 0, review |-> 0, question_type |-> ""]]_vars

\* C5 witness: the default Question came back for a review that has questions,
\* none of them Main, while another review has a Main question.
MainQuestionDefaultWitness ==
    /\ op = "get_main_question"
    /\ mq_ret.id = 0
    /\ \E i \in 1..Len(questions) : questions[i].review = mq_review
    /\ \E i \in 1..Len(questions) :
          questions[i].review # mq_review /\ questions[i].question_type = "M"

\* C6: is_author_or_coauthor(user) is true exactly when the user is the author
\* or one of the co-authors, wherever the user stands among the co-authors.
IsAuthorOrCoauthorContract ==
    op = "is_author_or_coauthor" =>
        (is_ret <=> (user = author \/ user \in co_authors))

\* C6 witness: a co-author who is not the author and came last of several.
CoAuthorLastWitness ==
    /\ op = "is_author_or_coauthor"
    /\ is_ret
    /\ user # author
    /\ Len(co_order) >= 2
    /\ co_order[Len(co_order)] = user

\* stored holds the first 200 characters of before, and so does held.
FirstCharactersKept(before, stored, held) ==
    /\ Len(stored) = (IF Len(before) <= 200 THEN Len(before) ELSE 200)
    /\ \A i \in 1..Len(stored) : stored[i] = before[i]
    /\ Len(before) <= 200 => stored = before
    /\ held = stored

\* C7: a save of a Keyword or a SelectionCriteria stores exactly the first 200
\* characters of the description held before it, unchanged when it has at most
\* 200; a stored description never exceeds 200 characters, and saving what was
\* just saved changes nothing.
DescriptionSaveContract ==
    [][/\ op' = "keyword_save" =>
            /\ FirstCharactersKept(kw_description, kw_saved', kw_description')
            /\ kw_description = kw_saved => kw_saved' = kw_saved
       /\ op' = "criteria_save" =>
            /\ FirstCharactersKept(sc_description, sc_saved', sc_description')
            /\ sc_description = sc_saved => sc_saved' = sc_saved
       /\ Len(kw_saved') <= 200
       /\ Len(sc_saved') <= 200]_vars

\* C7 witness: a Keyword saved with more than 200 characters, stored with 200.
TruncatedKeywordWitness ==
    /\ op = "keyword_save"
    /\ Len(old_description) > 200
    /\ Len(kw_saved) = 200
    /\ kw_saved # old_description

\* C8: get_synonyms returns exactly the keywords of the keyword's own review
\* whose synonym_of is that keyword, each once.
GetSynonymsContract ==
    op = "get_synonyms" =>
        /\ \A i \in 1..Len(keywords) :
              (i \in Range(kw_ret)) <=>
                  /\ keywords[i].review = keywords[kw_self].review
                  /\ keywords[i].synonym_of = kw_self
        /\ Range(kw_ret) \subseteq 1..Len(keywords)
        /\ \A i, j \in 1..Len(kw_ret) : kw_ret[i] = kw_ret[j] => i = j

\* C8 witness: a synonym was returned while a keyword of another review, with
\* the synonym's description, points to the same keyword and was left out.
SynonymCollisionWitness ==
    /\ op = "get_synonyms"
    /\ kw_ret # <<>>
    /\ \E j \in 1..Len(keywords) :
          /\ keywords[j].synonym_of = kw_self
          /\ keywords[j].review # keywords[kw_self].review
          /\ keywords[j].description = keywords[kw_ret[1]].description
          /\ j \notin Range(kw_ret)

\* C9: get_generic_search_string stores nothing; it returns a stored session of
\* the review without a source when there is one, and otherwise a session with
\* no pk and no source, bound to the review.
GetGenericSearchStringContract ==
    [][op' = "get_generic_search_string" =>
        /\ sessions' = sessions
        /\ IF \E i \in 1..Len(sessions) :
                  sessions[i].review = ss_review' /\ sessions[i].source = 0
           THEN /\ ss_ret'.id \in 1..Len(sessions)
                /\ sessions[ss_ret'.id].review = ss_review'
                /\ sessions[ss_ret'.id].source = 0
                /\ ss_ret'.review = ss_review'
                /\ ss_ret'.source = 0
           ELSE ss_ret' = [id |-> 0, review |-> ss_review', source |-> 0]]_vars

\* C9 witness: a new session came back for a review whose sessions all have a
\* source, while another review has a session without one.
GenericSessionDefaultWitness ==
    /\ op = "get_generic_search_string"
    /\ ss_ret.id = 0
    /\ ss_ret.review = ss_review
    /\ \E i \in 1..Len(sessions) : sessions[i].review = ss_review
    /\ \E i \in 1..Len(sessions) :
          sessions[i].review # ss_review /\ sessions[i].source = 0

\* C10: each review has at most one Question of type Main.
AtMostOneMainQuestion ==
    \A r \in Reviews :
        Cardinality({i \in 1..Len(questions) :
            questions[i].review = r /\ questions[i].question_type = "M"}) <= 1

====
